---- MODULE Spec2Model ----
(***************************************************************************)
(* Model of the chatdba backend of luomsis/agent4everything:               *)
(*   - QueryWorkflow  (services/query_workflow.py), a LangGraph state      *)
(*     graph  get_schema -> get_rag_context -> generate_sql ->             *)
(*     execute_query -> explain_results, with the handle_error terminal;   *)
(*   - the direct HTTP route (routers/query_router.py);                    *)
(*   - UploadWorkflow (services/upload_workflow.py);                       *)
(*   - the two SQL gates, LLMService._is_query_safe (with                  *)
(*     _clean_sql_query in front of it) and DatabaseService.is_safe_query. *)
(* A SQL text is a sequence of one-character strings, so that the gates    *)
(* are computed on characters as the Python code computes them.            *)
(* A state record (a Python dict) is a function whose DOMAIN is the set of *)
(* keys present; a stage's patch is merged with  patch @@ state.           *)
(***************************************************************************)
EXTENDS Integers, Sequences, FiniteSets, TLC

VARIABLES
    entry,    \* the operation the caller invoked: "query", "route", "upload", "gate"
    pc,       \* the stage (or handler position) that runs next; "done" after the return
    st,       \* the running state record of the graph (the handler's locals for "route")
    visited,  \* the stages executed so far in this run, in order
    calls,    \* the capability invocations so far: records [cap, arg, ret]
    resp,     \* the mapping returned to the caller (NoResp before the return)
    submitted, \* the argument of the call (files of process_upload, text of the gates)
    parked    \* the other runs of the same workflow object, suspended at an await

vars == <<entry, pc, st, visited, calls, resp, submitted, parked>>

-----------------------------------------------------------------------------
(* Bounds of the model *)

\* a model output (and a text given to the gates) is at most MaxFrags fragments
MaxFrags == 2
\* the execution capability returns at most MaxRows rows
MaxRows == 3
\* the caller asks for max_results in 0..MaxResults
MaxResults == 2
\* process_upload is given at most MaxFiles files
MaxFiles == 2

-----------------------------------------------------------------------------
(* Characters and Python's str methods *)

LowerSeq == <<"a","b","c","d","e","f","g","h","i","j","k","l","m",
              "n","o","p","q","r","s","t","u","v","w","x","y","z">>
UpperSeq == <<"A","B","C","D","E","F","G","H","I","J","K","L","M",
              "N","O","P","Q","R","S","T","U","V","W","X","Y","Z">>
LowerSet == {LowerSeq[i] : i \in 1..26}
UpperSet == {UpperSeq[i] : i \in 1..26}
UpMap == [c \in LowerSet |-> UpperSeq[CHOOSE i \in 1..26 : LowerSeq[i] = c]]
LowMap == [c \in UpperSet |-> LowerSeq[CHOOSE i \in 1..26 : UpperSeq[i] = c]]

ToUpper(c) == IF c \in LowerSet THEN UpMap[c] ELSE c
ToLower(c) == IF c \in UpperSet THEN LowMap[c] ELSE c

\* str.upper(), str.lower()
Upper(s) == [i \in 1..Len(s) |-> ToUpper(s[i])]
Lower(s) == [i \in 1..Len(s) |-> ToLower(s[i])]

\* the characters str.strip() removes and the regex class \s matches
Whitespace == {" ", "\n", "\t"}

\* s[i:] of Python, with i counted from 1
From(s, i) == SubSeq(s, i, Len(s))

\* str.startswith(p)
StartsWith(s, p) == Len(s) >= Len(p) /\ SubSeq(s, 1, Len(p)) = p

\* p occurs in s at position i
OccursAt(s, p, i) == i + Len(p) - 1 <= Len(s) /\ SubSeq(s, i, i + Len(p) - 1) = p

\* the Python test  p in s
Contains(s, p) == \E i \in 1..(Len(s) + 1) : OccursAt(s, p, i)

RECURSIVE LStrip(_)
LStrip(s) == IF s # <<>> /\ Head(s) \in Whitespace THEN LStrip(Tail(s)) ELSE s

RECURSIVE RStrip(_)
RStrip(s) ==
    IF s # <<>> /\ s[Len(s)] \in Whitespace THEN RStrip(SubSeq(s, 1, Len(s) - 1)) ELSE s

\* str.strip()
Strip(s) == RStrip(LStrip(s))

-----------------------------------------------------------------------------
(* Python's re, for the constructs the patterns of the code use *)

Lit(s) == [i \in 1..Len(s) |-> [k |-> "lit", c |-> s[i]]]
Plus(cls) == <<[k |-> "plus", cls |-> cls]>>
Star(cls) == <<[k |-> "star", cls |-> cls]>>
EndOfText == <<[k |-> "end"]>>

\* the character classes \s, [^\s], [^\n] and [\s\S]
InClass(c, cls) ==
    CASE cls = "space"      -> c \in Whitespace
      [] cls = "nonspace"   -> c \notin Whitespace
      [] cls = "notnewline" -> c # "\n"
      [] cls = "any"        -> TRUE

\* pattern p from element i on matches s from position j on (re.IGNORECASE)
RECURSIVE MatchAt(_, _, _, _)
MatchAt(p, i, s, j) ==
    IF i > Len(p) THEN TRUE
    ELSE LET e == p[i] IN
         CASE e.k = "lit"  -> /\ j <= Len(s)
                              /\ ToUpper(s[j]) = ToUpper(e.c)
                              /\ MatchAt(p, i + 1, s, j + 1)
           [] e.k = "plus" -> /\ j <= Len(s)
                              /\ InClass(s[j], e.cls)
                              /\ \/ MatchAt(p, i, s, j + 1)
                                 \/ MatchAt(p, i + 1, s, j + 1)
           [] e.k = "star" -> \/ /\ j <= Len(s)
                                 /\ InClass(s[j], e.cls)
                                 /\ MatchAt(p, i, s, j + 1)
                              \/ MatchAt(p, i + 1, s, j)
           \* $ without re.MULTILINE: the end, or before a newline that ends the text
           [] e.k = "end"  -> /\ \/ j = Len(s) + 1
                                 \/ j = Len(s) /\ s[j] = "\n"
                              /\ MatchAt(p, i + 1, s, j)

\* re.search(p, s, re.IGNORECASE) found a match
Search(p, s) == \E j \in 1..(Len(s) + 1) : MatchAt(p, 1, s, j)

\* the start of the first match of re.search(p, s, re.IGNORECASE)
SearchStart(p, s) ==
    CHOOSE j \in 1..(Len(s) + 1) :
        /\ MatchAt(p, 1, s, j)
        /\ \A h \in 1..(j - 1) : ~MatchAt(p, 1, s, h)

\* the backquote character (SANY reads no backquote inside a string)
BQ == "<bq>"

FenceSql == <<BQ, BQ, BQ, "s","q","l">>
Fence == <<BQ, BQ, BQ>>

\* re.sub of the two code-fence markers (with sql and an optional newline, or
\* bare) by the empty string: left to right, the first alternative first
RECURSIVE StripFences(_)
StripFences(s) ==
    IF s = <<>> THEN <<>>
    ELSE IF StartsWith(s, FenceSql \o <<"\n">>) THEN StripFences(From(s, 8))
    ELSE IF StartsWith(s, FenceSql) THEN StripFences(From(s, 7))
    ELSE IF StartsWith(s, Fence) THEN StripFences(From(s, 4))
    ELSE <<Head(s)>> \o StripFences(Tail(s))

-----------------------------------------------------------------------------
(* LLMService: the generation-time gate *)

KwSelect == <<"S","E","L","E","C","T">>

Ok(v) == [ok |-> TRUE, val |-> v]
Raise(msg) == [ok |-> FALSE, err |-> msg]

\* LLMService._clean_sql_query
clean_sql_query(query) ==
    LET q == Strip(StripFences(query)) IN
    IF StartsWith(Upper(q), KwSelect) THEN Ok(q)
    ELSE IF Search(Lit(KwSelect), q) THEN Ok(From(q, SearchStart(Lit(KwSelect), q)))
    ELSE Raise("Query must be a SELECT statement")

\* the pattern list without the trailing line comment
dangerous_patterns_no_comment == <<
    Lit(<<"D","R","O","P">>) \o Plus("space") \o Lit(<<"T","A","B","L","E">>),
    Lit(<<"D","E","L","E","T","E">>) \o Plus("space") \o Lit(<<"F","R","O","M">>),
    Lit(<<"U","P","D","A","T","E">>) \o Plus("space") \o Plus("nonspace")
        \o Plus("space") \o Lit(<<"S","E","T">>),
    Lit(<<"I","N","S","E","R","T">>) \o Plus("space") \o Lit(<<"I","N","T","O">>),
    Lit(<<"T","R","U","N","C","A","T","E">>),
    Lit(<<"E","X","E","C">>) \o Star("space") \o Lit(<<"(">>),
    Lit(<<"E","X","E","C","U","T","E">>) \o Star("space") \o Lit(<<"(">>),
    Lit(<<"/","*">>) \o Star("any") \o Lit(<<"*","/">>)
>>

dangerous_patterns == <<
    Lit(<<"D","R","O","P">>) \o Plus("space") \o Lit(<<"T","A","B","L","E">>),
    Lit(<<"D","E","L","E","T","E">>) \o Plus("space") \o Lit(<<"F","R","O","M">>),
    Lit(<<"U","P","D","A","T","E">>) \o Plus("space") \o Plus("nonspace")
        \o Plus("space") \o Lit(<<"S","E","T">>),
    Lit(<<"I","N","S","E","R","T">>) \o Plus("space") \o Lit(<<"I","N","T","O">>),
    Lit(<<"T","R","U","N","C","A","T","E">>),
    Lit(<<"E","X","E","C">>) \o Star("space") \o Lit(<<"(">>),
    Lit(<<"E","X","E","C","U","T","E">>) \o Star("space") \o Lit(<<"(">>),
    Lit(<<"-","-">>) \o Star("space") \o Star("notnewline") \o EndOfText,
    Lit(<<"/","*">>) \o Star("any") \o Lit(<<"*","/">>)
>>

\* LLMService._is_query_safe
is_query_safe(query) ==
    LET query_upper == Upper(query) IN
    IF ~StartsWith(query_upper, KwSelect) THEN FALSE
    ELSE \A n \in 1..Len(dangerous_patterns) : ~Search(dangerous_patterns[n], query_upper)

-----------------------------------------------------------------------------
(* DatabaseService: the execution-time gate *)

\* the keyword list without truncate
dangerous_keywords_no_truncate == <<
    <<"i","n","s","e","r","t">>,
    <<"u","p","d","a","t","e">>,
    <<"d","e","l","e","t","e">>,
    <<"d","r","o","p">>,
    <<"a","l","t","e","r">>,
    <<"c","r","e","a","t","e">>
>>

dangerous_keywords == <<
    <<"i","n","s","e","r","t">>,
    <<"u","p","d","a","t","e">>,
    <<"d","e","l","e","t","e">>,
    <<"d","r","o","p">>,
    <<"t","r","u","n","c","a","t","e">>,
    <<"a","l","t","e","r">>,
    <<"c","r","e","a","t","e">>
>>

\* an execution gate that looks at the leading verb only
is_safe_query_leading_verb(query) ==
    LET query_lower == Lower(query) IN
    StartsWith(Strip(query_lower), Lower(KwSelect))

\* DatabaseService.is_safe_query
is_safe_query(query) ==
    LET query_lower == Lower(query) IN
    IF ~StartsWith(Strip(query_lower), Lower(KwSelect)) THEN FALSE
    ELSE \A n \in 1..Len(dangerous_keywords) : ~Contains(query_lower, dangerous_keywords[n])

-----------------------------------------------------------------------------
(* The texts of the model: every concatenation of at most MaxFrags fragments *)

\* the fragments a model output is made of
OutputFragments == {
    <<"S","E","L","E","C","T"," ","1">>,
    <<"s","e","l","e","c","t"," ","x">>,
    <<" ","L","I","M","I","T"," ","1">>,
    <<"D","R","O","P"," ","T","A","B","L","E"," ","u","s","e","r","s",";"," ">>,
    <<" ","-","-"," ","c">>,
    <<" ","F","R","O","M"," ","u","p","d","a","t","e","d","_","a","t">>,
    <<"E","R","R","O","R",":">>,
    <<" ","'","e","r","r","o","r",":","'">>,
    <<BQ, BQ, BQ, "s","q","l","\n">>,
    <<BQ, BQ, BQ>>,
    <<" ">>,
    <<";"," ","D","E","L","E","T","E"," ","F","R","O","M"," ","t">>
}

\* the fragments of a text given to the gates alone: the other patterns too
Fragments == OutputFragments \cup {
    <<"\n">>,
    <<"/","*"," ","c"," ","*","/">>,
    <<" ","E","X","E","C","(">>,
    <<" ","U","P","D","A","T","E"," ","t"," ","S","E","T">>,
    <<" ","I","N","S","E","R","T"," ","I","N","T","O"," ","t">>,
    <<" ","T","R","U","N","C","A","T","E">>,
    <<" ","E","X","E","C","U","T","E"," ","(">>,
    <<" ","d","r","o","p">>
}

RECURSIVE TextsOf(_, _)
TextsOf(fragments, n) ==
    IF n = 0 THEN {<<>>}
    ELSE LET shorter == TextsOf(fragments, n - 1) IN
         shorter \cup {t \o f : t \in shorter, f \in fragments}

Texts == TextsOf(Fragments, MaxFrags)
ModelOutputs == TextsOf(OutputFragments, MaxFrags)

-----------------------------------------------------------------------------
(* State records *)

NoResp == [none |-> TRUE]

\* Python's None, where a str is expected
None == "None"

Has(s, k) == k \in DOMAIN s

\* dict.get(k, default)
Get(s, k, default) == IF Has(s, k) THEN s[k] ELSE default

\* LangGraph merges a stage's patch onto the running state: the keys of the
\* patch overwrite, the others stay
Merge(s, patch) == patch @@ s

-----------------------------------------------------------------------------
(* The capabilities and what they may answer *)

\* str(e) of an exception a capability raises
ExcTexts == {"", "connection refused"}
Failures == {Raise(m) : m \in ExcTexts}

Question == "What is the capital of France?"

\* DatabaseService.get_schema answers a mapping from table names to columns:
\* of a database without tables, or of one whose table the question is not about
EmptySchema == <<>>
UsersSchema == [users |-> <<"id", "name", "updated_at">>]
Schemas == {EmptySchema, UsersSchema}

\* vector_store.similarity_search answers a list of documents; the store is
\* up or down for a whole request, so both searches of a request fare alike
SchemaDoc == [content |-> "Table: users", metadata |-> "schema", score |-> 0]
SearchAnswers == {Ok(<<SchemaDoc>>), Raise("store unreachable")}

\* DatabaseService.execute_query answers a list of rows
Rows(n) == [i \in 1..n |-> [row |-> i]]
ExecuteAnswers == {Ok(Rows(n)) : n \in 0..MaxRows} \cup Failures

\* llm.ainvoke answers a message; its content is a SQL text or a narration
GenerateAnswers == {Ok(t) : t \in ModelOutputs} \cup Failures
Narrations == {"The query returned the number one.", ""}
ExplainAnswers == {Ok(n) : n \in Narrations} \cup {Raise("timeout")}

\* truth value of a dict and of a list or str, as Python's  not x  takes it
TruthyDict(d) == DOMAIN d # {}
TruthySeq(x) == x # <<>>
TruthyStr(x) == x # ""

Call(cap, arg, ret) == [cap |-> cap, arg |-> arg, ret |-> ret]

Min(a, b) == IF a <= b THEN a ELSE b

\* the elements of a sequence
Range(s) == {s[i] : i \in 1..Len(s)}

\* a slice that keeps the whole list
Prefix_untruncated(rows, n) == rows

\* list[:n] for n >= 0
Prefix(rows, n) == SubSeq(rows, 1, Min(Len(rows), n))

-----------------------------------------------------------------------------
(* RAGService *)

\* RAGService.search_relevant_info: a failure of the store is an empty list
search_relevant_info(answer) == IF answer.ok THEN answer.val ELSE <<>>

\* RAGService.get_query_context, given the answers of its two searches
get_query_context(schema, answer1, answer2) ==
    Ok([schema_info |-> search_relevant_info(answer1),
        best_practices |-> search_relevant_info(answer2),
        full_schema |-> schema])

-----------------------------------------------------------------------------
(* LLMService *)

\* generate_sql_query without its call of _is_query_safe
generate_sql_query_unchecked(answer) ==
    IF ~answer.ok THEN answer ELSE clean_sql_query(Strip(answer.val))

\* LLMService.generate_sql_query, given the answer of llm.ainvoke
generate_sql_query(answer) ==
    IF ~answer.ok THEN answer
    ELSE LET cleaned == clean_sql_query(Strip(answer.val)) IN
         IF ~cleaned.ok THEN cleaned
         ELSE IF is_query_safe(cleaned.val) THEN Ok(cleaned.val)
         ELSE Raise("Generated query failed safety validation")

\* generate_sql_query and the two gates, tabulated once over the answers of
\* the model and over the statements generation can accept
GeneratedOf == [answer \in GenerateAnswers |-> generate_sql_query(answer)]
Statements ==
    {GeneratedOf[answer].val : answer \in {a \in GenerateAnswers : GeneratedOf[a].ok}}
\* what each gate answers on each of these statements: _is_query_safe, and
\* is_safe_query as execute_query and the route call it
GenerationVerdict == [t \in Statements |-> is_query_safe(t)]
ExecutionVerdict == [t \in Statements |-> is_safe_query(t)]

FallbackExplanation == "Unable to generate explanation for the results."

\* LLMService.explain_results, given the answer of llm.ainvoke
llm_explain_results(answer) == IF answer.ok THEN answer.val ELSE FallbackExplanation

-----------------------------------------------------------------------------
(* QueryWorkflow: the stages, each from the running state to its patch *)

\* a stage that returns the state it was given changes nothing
NoPatch == <<>>

\* QueryWorkflow.get_schema, given the answer of db_service.get_schema
get_schema(state, answer) ==
    IF answer.ok THEN [schema |-> answer.val]
    ELSE [error |-> "Schema extraction failed: " \o answer.err, success |-> FALSE]

\* get_rag_context calls the retrieval service only with a schema in the state
HasSchema(state) == Has(state, "schema") /\ TruthyDict(state.schema)

\* get_rag_context taking a context without retrieved snippets for a failure
get_rag_context_strict(state, context) ==
    IF ~HasSchema(state) THEN [error |-> "No schema available", success |-> FALSE]
    ELSE IF context.ok /\ context.val.schema_info # <<>>
    THEN [rag_context |-> context.val]
    ELSE [error |-> "RAG context failed", success |-> FALSE]

\* QueryWorkflow.get_rag_context, given what rag_service.get_query_context did
get_rag_context(state, context) ==
    IF ~HasSchema(state) THEN [error |-> "No schema available", success |-> FALSE]
    ELSE IF context.ok THEN [rag_context |-> context.val]
    ELSE [rag_context |-> [schema_info |-> <<>>, best_practices |-> <<>>,
                           full_schema |-> Get(state, "schema", EmptySchema)]]

\* generate_sql without its check of the context
HasContext_unchecked(state) == TRUE

\* generate_sql calls the model only with a context in the state
HasContext(state) == Has(state, "rag_context") /\ TruthyDict(state.rag_context)

\* QueryWorkflow.generate_sql, given what llm_service.generate_sql_query did
generate_sql(state, sql_query) ==
    IF ~HasContext(state)
    THEN [error |-> "No context available for SQL generation", success |-> FALSE]
    ELSE IF sql_query.ok THEN [generated_sql |-> sql_query.val]
    ELSE [error |-> "SQL generation failed: " \o sql_query.err, success |-> FALSE]

HasSql(state) == Has(state, "generated_sql") /\ TruthySeq(state.generated_sql)

\* execute_query calls the execution capability only after both of its checks
ReachesExecution(state) == HasSql(state) /\ ExecutionVerdict[state.generated_sql]

\* execute_query that returns the rows without the success flag
execute_query_no_success(state, answer) ==
    IF ~HasSql(state) THEN [error |-> "No SQL query to execute", success |-> FALSE]
    ELSE IF ~ExecutionVerdict[state.generated_sql]
    THEN [error |-> "Generated query is not safe", success |-> FALSE]
    ELSE IF answer.ok
    THEN [execution_result |-> Prefix(answer.val, Get(state, "max_results", 50))]
    ELSE [error |-> "Query execution failed: " \o answer.err, success |-> FALSE]

\* QueryWorkflow.execute_query, given the answer of db_service.execute_query
execute_query(state, answer) ==
    IF ~HasSql(state) THEN [error |-> "No SQL query to execute", success |-> FALSE]
    ELSE IF ~ExecutionVerdict[state.generated_sql]
    THEN [error |-> "Generated query is not safe", success |-> FALSE]
    ELSE IF answer.ok
    THEN [execution_result |-> Prefix(answer.val, Get(state, "max_results", 50)),
          success |-> TRUE]
    ELSE [error |-> "Query execution failed: " \o answer.err, success |-> FALSE]

\* explain_results calls the model only with rows and a statement in the state
HasRows(state) ==
    /\ Has(state, "execution_result") /\ TruthySeq(state.execution_result)
    /\ HasSql(state)

\* explain_results recording a failed narration as the failure of the run
explain_results_failing(state, answer) ==
    IF ~HasRows(state) THEN NoPatch
    ELSE IF answer.ok THEN [explanation |-> answer.val]
    ELSE [error |-> "Result explanation failed: " \o answer.err, success |-> FALSE]

\* QueryWorkflow.explain_results, given the answer of llm.ainvoke
explain_results(state, answer) ==
    IF ~HasRows(state) THEN NoPatch
    ELSE [explanation |-> llm_explain_results(answer)]

\* handle_error reading the error without a default
handle_error_no_default(state) ==
    [error |-> Get(state, "error", None), success |-> FALSE]

\* QueryWorkflow.handle_error
\* a handle_error that also clears the generated statement
handle_error_retracting(state) ==
    [error |-> Get(state, "error", "Unknown error occurred"), success |-> FALSE,
     generated_sql |-> <<>>]

handle_error(state) ==
    [error |-> Get(state, "error", "Unknown error occurred"), success |-> FALSE]

HasError(state) == Has(state, "error") /\ TruthyStr(state.error)

Sentinel == <<"E","R","R","O","R",":">>

\* a validity check that does not look for the sentinel
check_sql_validity_no_sentinel(state) ==
    IF HasError(state) \/ ~HasSql(state) THEN "invalid"
    ELSE LET sql == Upper(state.generated_sql) IN
         IF ~StartsWith(sql, KwSelect) THEN "invalid"
         ELSE "valid"

\* QueryWorkflow.check_sql_validity
check_sql_validity(state) ==
    IF HasError(state) \/ ~HasSql(state) THEN "invalid"
    ELSE LET sql == Upper(state.generated_sql) IN
         IF ~StartsWith(sql, KwSelect) \/ Contains(sql, Sentinel) THEN "invalid"
         ELSE "valid"

\* QueryWorkflow.check_execution_success
check_execution_success(state) ==
    IF HasError(state) \/ ~Get(state, "success", FALSE) THEN "error" ELSE "success"

\* a graph whose explain_results leads to a stage that was never declared
QueryEdge_dangling(stage, state) ==
    CASE stage = "get_schema"      -> "get_rag_context"
      [] stage = "get_rag_context" -> "generate_sql"
      [] stage = "generate_sql"    ->
            IF check_sql_validity(state) = "valid" THEN "execute_query" ELSE "handle_error"
      [] stage = "execute_query"   ->
            IF check_execution_success(state) = "success"
            THEN "explain_results" ELSE "handle_error"
      [] stage = "explain_results" -> "summarize"
      [] stage = "handle_error"    -> "END"

\* QueryWorkflow._build_graph: the stage that follows stage, in the state it left
QueryEdge(stage, state) ==
    CASE stage = "get_schema"      -> "get_rag_context"
      [] stage = "get_rag_context" -> "generate_sql"
      [] stage = "generate_sql"    ->
            IF check_sql_validity(state) = "valid" THEN "execute_query" ELSE "handle_error"
      [] stage = "execute_query"   ->
            IF check_execution_success(state) = "success"
            THEN "explain_results" ELSE "handle_error"
      [] stage = "explain_results" -> "END"
      [] stage = "handle_error"    -> "END"

\* QueryWorkflow.process_query: the state the graph is started with
QueryInitialState(max_results) ==
    [natural_language_query |-> Question, max_results |-> max_results, success |-> FALSE]

\* QueryWorkflow.process_query: the mapping built from the final state
QueryResult(final_state) ==
    [generated_sql |-> Get(final_state, "generated_sql", <<>>),
     has_sql |-> Has(final_state, "generated_sql"),
     execution_result |-> Get(final_state, "execution_result", <<>>),
     has_rows |-> Has(final_state, "execution_result"),
     explanation |-> Get(final_state, "explanation", None),
     success |-> Get(final_state, "success", FALSE),
     error |-> Get(final_state, "error", None)]

\* one stage of the graph has run: its patch is merged and the edge is taken
QueryStep(stage, patch, newcalls) ==
    LET merged == Merge(st, patch) IN
    /\ calls' = calls \o newcalls
    /\ visited' = Append(visited, stage)
    /\ st' = merged
    /\ pc' = QueryEdge(stage, merged)
    /\ UNCHANGED <<parked, entry, resp, submitted>>

InitQuery ==
    /\ entry = "query"
    /\ pc = "get_schema"
    /\ \E m \in 0..MaxResults :
          /\ submitted = [natural_language_query |-> Question, max_results |-> m]
          /\ st = QueryInitialState(m)
    /\ visited = <<>>
    /\ calls = <<>>
    /\ resp = NoResp
    /\ parked = <<>>

GetSchema ==
    /\ entry = "query" /\ pc = "get_schema"
    /\ \E answer \in {Ok(s) : s \in Schemas} \cup Failures :
          QueryStep("get_schema", get_schema(st, answer),
                    <<Call("schema", <<>>, answer)>>)

GetRagContext ==
    /\ entry = "query" /\ pc = "get_rag_context"
    /\ IF HasSchema(st)
       THEN \E answer \in SearchAnswers :
               QueryStep("get_rag_context",
                         get_rag_context(st, get_query_context(st.schema, answer, answer)),
                         <<Call("search", 3, answer), Call("search", 2, answer)>>)
       ELSE QueryStep("get_rag_context", get_rag_context(st, Ok(<<>>)), <<>>)

GenerateSql ==
    /\ entry = "query" /\ pc = "generate_sql"
    /\ IF HasContext(st)
       THEN \E answer \in GenerateAnswers :
               QueryStep("generate_sql", generate_sql(st, GeneratedOf[answer]),
                         <<Call("model", "generate", answer)>>)
       ELSE QueryStep("generate_sql", generate_sql(st, Ok(<<>>)), <<>>)

ExecuteQuery ==
    /\ entry = "query" /\ pc = "execute_query"
    /\ IF ReachesExecution(st)
       THEN \E answer \in ExecuteAnswers :
               QueryStep("execute_query", execute_query(st, answer),
                         <<Call("execute", st.generated_sql, answer)>>)
       ELSE QueryStep("execute_query", execute_query(st, Ok(<<>>)), <<>>)

ExplainResults ==
    /\ entry = "query" /\ pc = "explain_results"
    /\ IF HasRows(st)
       THEN \E answer \in ExplainAnswers :
               QueryStep("explain_results", explain_results(st, answer),
                         <<Call("model", "explain", answer)>>)
       ELSE QueryStep("explain_results", explain_results(st, Ok("")), <<>>)

HandleError ==
    /\ entry = "query" /\ pc = "handle_error"
    /\ QueryStep("handle_error", handle_error(st), <<>>)

\* process_query returns the mapping it builds from the final state
ReturnQuery ==
    /\ entry = "query" /\ pc = "END"
    /\ resp' = QueryResult(st)
    /\ pc' = "done"
    /\ UNCHANGED <<parked, entry, st, visited, calls, submitted>>

-----------------------------------------------------------------------------
(* query_router.process_query: the direct HTTP route *)

\* str() of the HTTPException the handler raises for an unsafe statement
NotSafeText == "400: Generated query is not safe"

\* the QueryResponse of the handler's except branch
RouteFailure(msg) ==
    [generated_sql |-> <<>>, execution_result |-> <<>>, has_rows |-> FALSE,
     explanation |-> "Error: " \o msg, success |-> FALSE, error_message |-> msg]

\* the QueryResponse of the handler's try branch
RouteSuccess(sql_query, results, explanation, max_results) ==
    [generated_sql |-> sql_query, execution_result |-> Prefix(results, max_results),
     has_rows |-> TRUE, explanation |-> explanation, success |-> TRUE,
     error_message |-> None]

RouteGoes(next, locals, newcalls) ==
    /\ pc' = next
    /\ st' = locals
    /\ calls' = calls \o newcalls
    /\ UNCHANGED <<parked, entry, visited, resp, submitted>>

RouteFails(msg, newcalls) ==
    /\ pc' = "done"
    /\ resp' = RouteFailure(msg)
    /\ calls' = calls \o newcalls
    /\ UNCHANGED <<parked, entry, st, visited, submitted>>

InitRoute ==
    /\ entry = "route"
    /\ pc = "route_context"
    /\ \E m \in 0..MaxResults :
          submitted = [natural_language_query |-> Question, max_results |-> m]
    /\ st = [schema |-> UsersSchema]
    /\ visited = <<>>
    /\ calls = <<>>
    /\ resp = NoResp
    /\ parked = <<>>

RouteContext ==
    /\ entry = "route" /\ pc = "route_context"
    /\ \E answer \in SearchAnswers :
          RouteGoes("route_generate",
                    Merge(st, [context |-> get_query_context(st.schema, answer, answer).val]),
                    <<Call("search", 3, answer), Call("search", 2, answer)>>)

RouteGenerate ==
    /\ entry = "route" /\ pc = "route_generate"
    /\ \E answer \in GenerateAnswers :
          LET sql_query == GeneratedOf[answer]
              made == <<Call("model", "generate", answer)>> IN
          IF sql_query.ok
          THEN RouteGoes("route_execute", Merge(st, [sql_query |-> sql_query.val]), made)
          ELSE RouteFails(sql_query.err, made)

RouteExecute ==
    /\ entry = "route" /\ pc = "route_execute"
    /\ IF ~ExecutionVerdict[st.sql_query] THEN RouteFails(NotSafeText, <<>>)
       ELSE \E answer \in ExecuteAnswers :
               LET made == <<Call("execute", st.sql_query, answer)>> IN
               IF answer.ok
               THEN RouteGoes("route_explain", Merge(st, [results |-> answer.val]), made)
               ELSE RouteFails(answer.err, made)

RouteExplain ==
    /\ entry = "route" /\ pc = "route_explain"
    /\ \E answer \in ExplainAnswers :
          /\ pc' = "done"
          /\ resp' = RouteSuccess(st.sql_query, st.results, llm_explain_results(answer),
                                  submitted.max_results)
          /\ calls' = Append(calls, Call("model", "explain", answer))
          /\ UNCHANGED <<parked, entry, st, visited, submitted>>

-----------------------------------------------------------------------------
(* Files, text extraction and chunking *)

\* a filename is its stem and its extension; the missing filename has neither
NoName == [stem |-> "", ext |-> ""]
Filenames == {NoName, [stem |-> "a", ext |-> ".txt"], [stem |-> "notes", ext |-> ""]}
TruthyName(f) == f # NoName

\* the bytes of a file: their number, whether they decode as UTF-8, and whether
\* the decoded text is only whitespace
NoContent == [len |-> 0, utf8 |-> TRUE, blank |-> TRUE]
Contents == {
    NoContent,
    [len |-> 500, utf8 |-> FALSE, blank |-> FALSE],
    [len |-> 500, utf8 |-> TRUE, blank |-> TRUE],
    [len |-> 500, utf8 |-> TRUE, blank |-> FALSE],
    [len |-> 1500, utf8 |-> TRUE, blank |-> FALSE]
}
TruthyContent(c) == c.len # 0

FileInfos == {[filename |-> f, content |-> c] : f \in Filenames, c \in Contents}

RECURSIVE FileListsOf(_)
FileListsOf(n) ==
    IF n = 0 THEN {<<>>}
    ELSE LET shorter == FileListsOf(n - 1) IN
         shorter \cup {Append(l, f) : l \in shorter, f \in FileInfos}

FileLists == FileListsOf(MaxFiles)

TextExtensions == {".txt", ".md", ".csv", ".json", ".xml", ".html", ".htm"}

\* text_extraction.extract_text_from_file, for the extensions of Filenames
extract_text_from_file(content, file_extension) ==
    IF file_extension \in TextExtensions
    THEN IF content.utf8 THEN Ok([len |-> content.len, blank |-> content.blank])
         ELSE Raise("400: File encoding not supported")
    ELSE Raise("400: Unsupported file type for text extraction: " \o file_extension)

chunk_size == 1000
chunk_overlap == 200

\* the number of chunks RecursiveCharacterTextSplitter cuts a text into
NChunks(text) ==
    IF text.len = 0 \/ text.blank THEN 0
    ELSE IF text.len <= chunk_size THEN 1
    ELSE 1 + (text.len - chunk_size + (chunk_size - chunk_overlap) - 1)
                 \div (chunk_size - chunk_overlap)

\* the length of chunk i of a text
ChunkLen(text, i) ==
    Min(chunk_size, text.len - (i - 1) * (chunk_size - chunk_overlap))

\* text_splitter.split_documents: the chunks of each document, in order; origin
\* is the position in extracted_texts of the file a chunk was cut from, kept to
\* tell files of the same name apart
RECURSIVE split_documents(_)
split_documents(documents) ==
    IF documents = <<>> THEN <<>>
    ELSE LET d == Head(documents) IN
         [i \in 1..NChunks(d.page_content) |->
             [filename |-> d.filename, origin |-> d.origin, chunk |-> i,
              size |-> ChunkLen(d.page_content, i)]]
         \o split_documents(Tail(documents))

-----------------------------------------------------------------------------
(* UploadWorkflow: the stages, each from the running state to its patch *)

\* UploadWorkflow.validate_files
validate_files(state) ==
    LET files == Get(state, "files", <<>>)
        complete(file_info) ==
            TruthyName(file_info.filename) /\ TruthyContent(file_info.content)
        validated(file_info) ==
            [filename |-> file_info.filename, content |-> file_info.content,
             extension |-> file_info.filename.ext, size |-> file_info.content.len]
    IN  IF files = <<>> THEN [error |-> "No files provided", success |-> FALSE]
        ELSE LET kept == SelectSeq(files, complete)
             IN  [files |-> [i \in 1..Len(kept) |-> validated(kept[i])]]

\* UploadWorkflow.extract_text
extract_text(state) ==
    LET files == Get(state, "files", <<>>)
        extracted(file_info) ==
            LET text_content ==
                    extract_text_from_file(file_info.content, file_info.extension)
            IN  IF text_content.ok
                THEN [filename |-> file_info.filename, text |-> text_content.val,
                      extension |-> file_info.extension, error |-> ""]
                ELSE [filename |-> file_info.filename,
                      text |-> [len |-> 24 + Len(text_content.err), blank |-> FALSE],
                      extension |-> file_info.extension, error |-> text_content.err]
    IN  IF files = <<>> THEN [error |-> "No files to process", success |-> FALSE]
        ELSE [extracted_texts |-> [i \in 1..Len(files) |-> extracted(files[i])]]

\* UploadWorkflow.create_documents
create_documents(state) ==
    LET extracted_texts == Get(state, "extracted_texts", <<>>)
        clean(i) == ~TruthyStr(extracted_texts[i].error)
        document(i) ==
            [page_content |-> extracted_texts[i].text,
             filename |-> extracted_texts[i].filename, origin |-> i]
    IN  IF extracted_texts = <<>>
        THEN [error |-> "No extracted text to process", success |-> FALSE]
        ELSE LET kept == SelectSeq([i \in 1..Len(extracted_texts) |-> i], clean)
             IN  [processed_documents |->
                     split_documents([i \in 1..Len(kept) |-> document(kept[i])])]

HasDocuments(state) ==
    Has(state, "processed_documents") /\ TruthySeq(state.processed_documents)

\* what add_to_vector_store finds: no store, or a store whose add_documents
\* returns or raises
StoreAnswers == {[store |-> FALSE, add |-> Ok(<<>>)], [store |-> TRUE, add |-> Ok(<<>>)]}
                \cup {[store |-> TRUE, add |-> f] : f \in Failures}

\* add_to_vector_store calls add_documents only with documents and a store
ReachesStore(state, found) == HasDocuments(state) /\ found.store

\* UploadWorkflow.add_to_vector_store
add_to_vector_store(state, found) ==
    LET documents == Get(state, "processed_documents", <<>>)
        unavailable(doc) ==
            [filename |-> doc.filename, status |-> "error",
             message |-> "Vector store not available"]
        processed(doc) ==
            [filename |-> doc.filename, status |-> "success",
             message |-> "File processed successfully", chunk_size |-> doc.size]
    IN  IF documents = <<>> THEN [error |-> "No documents to add", success |-> FALSE]
        ELSE IF ~found.store
        THEN [error |-> "Vector store not available", success |-> FALSE,
              results |-> [i \in 1..Len(documents) |-> unavailable(documents[i])]]
        ELSE IF found.add.ok
        THEN [results |-> [i \in 1..Len(documents) |-> processed(documents[i])], success |-> TRUE]
        ELSE [error |-> "Failed to add documents: " \o found.add.err, success |-> FALSE]

\* handle_error of the upload reading the error without a default
upload_handle_error_no_default(state) ==
    LET error_msg == Get(state, "error", None)
        failed(file_info) ==
            [filename |-> file_info.filename, status |-> "error", message |-> error_msg]
    IN  [error |-> error_msg, success |-> FALSE,
         results |-> [i \in 1..Len(state.files) |-> failed(state.files[i])]]

\* UploadWorkflow.handle_error
upload_handle_error(state) ==
    LET error_msg == Get(state, "error", "Unknown error occurred")
        failed(file_info) ==
            [filename |-> file_info.filename, status |-> "error", message |-> error_msg]
    IN  [error |-> error_msg, success |-> FALSE,
         results |-> [i \in 1..Len(state.files) |-> failed(state.files[i])]]

\* check_documents_created looking at the error only
check_documents_created_lenient(state) ==
    IF HasError(state) THEN "error" ELSE "success"

\* UploadWorkflow.check_documents_created
check_documents_created(state) ==
    IF HasError(state) \/ ~HasDocuments(state) THEN "error" ELSE "success"

\* check_upload_success answering success whatever the state
check_upload_success_lenient(state) == "success"

\* UploadWorkflow.check_upload_success
check_upload_success(state) ==
    IF HasError(state) \/ ~Get(state, "success", FALSE) THEN "error" ELSE "success"

\* UploadWorkflow._build_graph: the stage that follows stage, in the state it left
\* a graph whose edge out of extract_text goes to the store stage directly
UploadEdge_skipping(stage, state) ==
    CASE stage = "validate_files"      -> "extract_text"
      [] stage = "extract_text"        -> "add_to_vector_store"
      [] stage = "create_documents"    ->
            IF check_documents_created(state) = "success"
            THEN "add_to_vector_store" ELSE "upload_handle_error"
      [] stage = "add_to_vector_store" ->
            IF check_upload_success(state) = "success" THEN "END" ELSE "upload_handle_error"
      [] stage = "upload_handle_error" -> "END"

UploadEdge(stage, state) ==
    CASE stage = "validate_files"      -> "extract_text"
      [] stage = "extract_text"        -> "create_documents"
      [] stage = "create_documents"    ->
            IF check_documents_created(state) = "success"
            THEN "add_to_vector_store" ELSE "upload_handle_error"
      [] stage = "add_to_vector_store" ->
            IF check_upload_success(state) = "success" THEN "END" ELSE "upload_handle_error"
      [] stage = "upload_handle_error" -> "END"

\* the number of result records with the given status
CountStatus(results, status) ==
    Cardinality({i \in 1..Len(results) : results[i].status = status})

\* process_upload counting over every call the instance has served so far
UploadResult_cumulative(files, final_state) ==
    LET results == Get(final_state, "results", <<>>)
        served == Cardinality({i \in 1..Len(calls) : calls[i].cap = "process_upload"})
    IN
    [processed_files |-> Len(files) * (1 + served),
     successful |-> CountStatus(results, "success") * (1 + served),
     failed |-> CountStatus(results, "error") * (1 + served),
     results |-> results,
     success |-> Get(final_state, "success", FALSE),
     error |-> Get(final_state, "error", None)]

\* UploadWorkflow.process_upload: the mapping built from the final state
UploadResult(files, final_state) ==
    LET results == Get(final_state, "results", <<>>) IN
    [processed_files |-> Len(files),
     successful |-> CountStatus(results, "success"),
     failed |-> CountStatus(results, "error"),
     results |-> results,
     success |-> Get(final_state, "success", FALSE),
     error |-> Get(final_state, "error", None)]

\* one stage of the graph has run: its patch is merged and the edge is taken
UploadStep(stage, patch, newcalls) ==
    LET merged == Merge(st, patch) IN
    /\ st' = merged
    /\ visited' = Append(visited, stage)
    /\ calls' = calls \o newcalls
    /\ pc' = UploadEdge(stage, merged)
    /\ UNCHANGED <<parked, entry, resp, submitted>>

InitUpload ==
    /\ entry = "upload"
    /\ pc = "validate_files"
    /\ submitted \in FileLists
    /\ st = [files |-> submitted, success |-> FALSE]
    /\ visited = <<>>
    /\ calls = <<>>
    /\ resp = NoResp
    /\ parked = <<>>

ValidateFiles ==
    /\ entry = "upload" /\ pc = "validate_files"
    /\ UploadStep("validate_files", validate_files(st), <<>>)

ExtractText ==
    /\ entry = "upload" /\ pc = "extract_text"
    /\ LET files == Get(st, "files", <<>>) IN
       UploadStep("extract_text", extract_text(st),
                  [i \in 1..Len(files) |->
                      Call("extract", files[i].filename,
                           extract_text_from_file(files[i].content, files[i].extension))])

CreateDocuments ==
    /\ entry = "upload" /\ pc = "create_documents"
    /\ UploadStep("create_documents", create_documents(st), <<>>)

AddToVectorStore ==
    /\ entry = "upload" /\ pc = "add_to_vector_store"
    /\ \E found \in StoreAnswers :
          UploadStep("add_to_vector_store", add_to_vector_store(st, found),
                     IF ~HasDocuments(st) THEN <<>>
                     ELSE <<Call("vector_store", "get", Ok(found.store))>>
                          \o IF ReachesStore(st, found)
                             THEN <<Call("store", st.processed_documents, found.add)>>
                             ELSE <<>>)

UploadHandleError ==
    /\ entry = "upload" /\ pc = "upload_handle_error"
    /\ UploadStep("upload_handle_error", upload_handle_error(st), <<>>)

\* process_upload returns the mapping it builds from the final state
ReturnUpload ==
    /\ entry = "upload" /\ pc = "END"
    /\ resp' = UploadResult(submitted, st)
    /\ pc' = "done"
    /\ UNCHANGED <<parked, entry, st, visited, calls, submitted>>

-----------------------------------------------------------------------------
(* The gates as pure functions: a text is drawn, then both gates are applied *)

InitGate ==
    /\ entry = "gate"
    /\ pc = "gate"
    /\ submitted \in Texts
    /\ st = [text |-> submitted]
    /\ visited = <<>>
    /\ calls = <<>>
    /\ resp = NoResp
    /\ parked = <<>>

ApplyGates ==
    /\ entry = "gate"
    /\ pc = "gate"
    /\ pc' = "done"
    /\ resp' = [generation |-> is_query_safe(submitted),
                execution |-> is_safe_query(submitted),
                generated |-> generate_sql_query(Ok(submitted))]
    /\ UNCHANGED <<parked, entry, st, visited, calls, submitted>>

NextGate == ApplyGates

SpecGate == InitGate /\ [][NextGate]_vars

-----------------------------------------------------------------------------
(* The program: one call of one of its operations *)

Init == InitQuery \/ InitRoute \/ InitUpload

Next ==
    \/ GetSchema
    \/ GetRagContext
    \/ GenerateSql
    \/ ExecuteQuery
    \/ ExplainResults
    \/ HandleError
    \/ ReturnQuery
    \/ RouteContext
    \/ RouteGenerate
    \/ RouteExecute
    \/ RouteExplain
    \/ ValidateFiles
    \/ ExtractText
    \/ CreateDocuments
    \/ AddToVectorStore
    \/ UploadHandleError
    \/ ReturnUpload

Spec == Init /\ [][Next]_vars

-----------------------------------------------------------------------------
(* The two pipelines with every capability call returning or raising: a stage
   that can run does run *)

\* the caller is about to call process_query or process_upload
InitLive ==
    /\ entry = "caller"
    /\ \/ pc = "process_query" /\ submitted = [natural_language_query |-> Question]
       \/ pc = "process_upload" /\ submitted = <<>>
    /\ st = [success |-> FALSE]
    /\ visited = <<>>
    /\ calls = <<>>
    /\ resp = NoResp
    /\ parked = <<>>

\* the caller calls process_query
CallProcessQuery ==
    /\ entry = "caller" /\ pc = "process_query"
    /\ entry' = "query"
    /\ pc' = "get_schema"
    /\ \E m \in 0..MaxResults :
          /\ submitted' = [natural_language_query |-> Question, max_results |-> m]
          /\ st' = QueryInitialState(m)
    /\ UNCHANGED <<parked, visited, calls, resp>>

\* the caller calls process_upload
CallProcessUpload ==
    /\ entry = "caller" /\ pc = "process_upload"
    /\ entry' = "upload"
    /\ pc' = "validate_files"
    /\ \E files \in FileLists :
          /\ submitted' = files
          /\ st' = [files |-> files, success |-> FALSE]
    /\ UNCHANGED <<parked, visited, calls, resp>>

NextLive ==
    \/ CallProcessQuery
    \/ CallProcessUpload
    \/ GetSchema
    \/ GetRagContext
    \/ GenerateSql
    \/ ExecuteQuery
    \/ ExplainResults
    \/ HandleError
    \/ ReturnQuery
    \/ ValidateFiles
    \/ ExtractText
    \/ CreateDocuments
    \/ AddToVectorStore
    \/ UploadHandleError
    \/ ReturnUpload

SpecLive == InitLive /\ [][NextLive]_vars /\ WF_vars(NextLive)

-----------------------------------------------------------------------------
(* Two runs of process_upload on one UploadWorkflow object, interleaved at the
   awaits between stages *)

\* the file lists the two runs are given: nothing, or one file of any kind
PairFiles == FileListsOf(1)

\* a run as its coroutine holds it: its position, its state dict, its result
RunOf ==
    [pc |-> pc, st |-> st, visited |-> visited, calls |-> calls, resp |-> resp,
     submitted |-> submitted]

\* two calls of process_upload are in flight, neither has run a stage yet
InitPair ==
    /\ entry = "upload"
    /\ pc = "validate_files"
    /\ submitted \in PairFiles
    /\ st = [files |-> submitted, success |-> FALSE]
    /\ visited = <<>>
    /\ calls = <<>>
    /\ resp = NoResp
    /\ \E files \in PairFiles :
          parked = <<[pc |-> "validate_files",
                      st |-> [files |-> files, success |-> FALSE],
                      visited |-> <<>>, calls |-> <<>>, resp |-> NoResp,
                      submitted |-> files]>>

\* a switch in which the state dict stays with the workflow object, not the run
Switch_sharing_state ==
    /\ entry = "upload" /\ parked # <<>>
    /\ pc' = parked[1].pc
    /\ st' = st
    /\ visited' = parked[1].visited
    /\ calls' = parked[1].calls
    /\ resp' = parked[1].resp
    /\ submitted' = parked[1].submitted
    /\ parked' = <<RunOf>>
    /\ UNCHANGED entry

\* the event loop suspends the running call at an await and resumes the other:
\* each call has its own state dict, the workflow object keeps none
Switch ==
    /\ entry = "upload" /\ parked # <<>>
    /\ pc' = parked[1].pc
    /\ st' = parked[1].st
    /\ visited' = parked[1].visited
    /\ calls' = parked[1].calls
    /\ resp' = parked[1].resp
    /\ submitted' = parked[1].submitted
    /\ parked' = <<RunOf>>
    /\ UNCHANGED entry

NextPair ==
    \/ ValidateFiles
    \/ ExtractText
    \/ CreateDocuments
    \/ AddToVectorStore
    \/ UploadHandleError
    \/ ReturnUpload
    \/ Switch

SpecPair == InitPair /\ [][NextPair]_vars

\* process_upload run alone: the stages the graph runs one after the other on
\* the files, with a store that answers found, and the state they leave
UploadAlone(files, found) ==
    LET s0 == [files |-> files, success |-> FALSE]
        s1 == Merge(s0, validate_files(s0))
        s2 == Merge(s1, extract_text(s1))
        s3 == Merge(s2, create_documents(s2))
        stored == UploadEdge("create_documents", s3) = "add_to_vector_store"
        s4 == IF stored THEN Merge(s3, add_to_vector_store(s3, found)) ELSE s3
        failed == ~stored \/ UploadEdge("add_to_vector_store", s4) = "upload_handle_error"
        s5 == IF failed THEN Merge(s4, upload_handle_error(s4)) ELSE s4
    IN  [st |-> s5,
         visited |-> <<"validate_files", "extract_text", "create_documents">>
                     \o (IF stored THEN <<"add_to_vector_store">> ELSE <<>>)
                     \o (IF failed THEN <<"upload_handle_error">> ELSE <<>>)]

-----------------------------------------------------------------------------
(* The upload endpoints of upload_router *)

SUPPORTED_EXTENSIONS ==
    {".txt", ".pdf", ".doc", ".docx", ".md", ".csv", ".json", ".xml", ".html", ".htm"}

\* what the body of a try block ends with: a response, or a raised HTTPException
JSONResponse(status, content) == [raised |-> FALSE, status |-> status, content |-> content]
HTTPException(status) == [raised |-> TRUE, status |-> status, content |-> None]

\* `except Exception as e: raise HTTPException(status_code=500, ...)` around a
\* body: HTTPException is an Exception, so what the body raised, whatever its
\* status, is caught and raised again as a 500
ExceptException(body) == IF body.raised THEN HTTPException(500) ELSE body

\* UploadWorkflow.process_upload as the endpoints see it: the whole run
process_upload(files, found) == UploadResult(files, UploadAlone(files, found).st)

\* the body of the try block of upload_knowledge_file
upload_knowledge_file_body(file, found) ==
    IF file.filename.ext \notin SUPPORTED_EXTENSIONS THEN HTTPException(400)
    ELSE LET result == process_upload(<<file>>, found) IN
         IF result.success THEN JSONResponse(200, result) ELSE HTTPException(500)

\* the body of the try block of upload_knowledge_batch
upload_knowledge_batch_body(files, found) ==
    LET supported(file) == file.filename.ext \in SUPPORTED_EXTENSIONS
        file_data == SelectSeq(files, supported)
    IN  IF file_data = <<>> THEN HTTPException(400)
        ELSE JSONResponse(200, process_upload(file_data, found))

\* the files an endpoint hands to the workflow, none when it does not get there
HandedOver(files) ==
    LET supported(file) == file.filename.ext \in SUPPORTED_EXTENSIONS
    IN  SelectSeq(files, supported)

\* a request with one file, or with a list of files, has arrived
InitEndpoint ==
    /\ \/ entry = "upload_file" /\ submitted \in FileListsOf(1) \ {<<>>}
       \/ entry = "upload_batch" /\ submitted \in FileLists \ {<<>>}
    /\ pc = "request"
    /\ st = NoResp
    /\ visited = <<>>
    /\ calls = <<>>
    /\ resp = NoResp
    /\ parked = <<>>

\* an endpoint has answered: the workflow call it made, if any, and the response
Answer(body, found) ==
    /\ calls' = IF HandedOver(submitted) = <<>> THEN <<>>
                ELSE <<Call("process_upload", HandedOver(submitted),
                            Ok(process_upload(HandedOver(submitted), found)))>>
    /\ resp' = ExceptException(body)
    /\ pc' = "done"
    /\ UNCHANGED <<parked, entry, st, visited, submitted>>

UploadKnowledgeFile ==
    /\ entry = "upload_file" /\ pc = "request"
    /\ \E found \in StoreAnswers :
          Answer(upload_knowledge_file_body(submitted[1], found), found)

UploadKnowledgeBatch ==
    /\ entry = "upload_batch" /\ pc = "request"
    /\ \E found \in StoreAnswers :
          Answer(upload_knowledge_batch_body(submitted, found), found)

NextEndpoint == UploadKnowledgeFile \/ UploadKnowledgeBatch

SpecEndpoint == InitEndpoint /\ [][NextEndpoint]_vars

-----------------------------------------------------------------------------
(* process_upload called a second time on the same file list *)

\* the caller keeps the first result and calls process_upload again with the
\* same files: the graph starts from a new initial state, while the store it
\* meets is a new one, free to be there or not and to accept or to fail
Resubmit ==
    /\ entry = "upload" /\ pc = "done"
    /\ \A i \in 1..Len(calls) : calls[i].cap # "process_upload"
    /\ calls' = Append(calls, Call("process_upload", submitted, Ok(resp)))
    /\ st' = [files |-> submitted, success |-> FALSE]
    /\ visited' = <<>>
    /\ pc' = "validate_files"
    /\ resp' = NoResp
    /\ UNCHANGED <<parked, entry, submitted>>

NextRerun ==
    \/ ValidateFiles
    \/ ExtractText
    \/ CreateDocuments
    \/ AddToVectorStore
    \/ UploadHandleError
    \/ ReturnUpload
    \/ Resubmit

SpecRerun == InitUpload /\ [][NextRerun]_vars

-----------------------------------------------------------------------------
(* What a state says about the run so far *)

\* the positions of calls at which the capability cap was invoked
CallsOf(cap) == {i \in 1..Len(calls) : calls[i].cap = cap}

\* the positions at which the model was asked for a statement
GenerateCalls == {i \in CallsOf("model") : calls[i].arg = "generate"}

\* the model was asked for a statement and returned the text t
ModelReturned(t) == \E i \in GenerateCalls : calls[i].ret = Ok(t)

IsPipeline == entry \in {"query", "upload"}
IsFinal == pc \in {"END", "done"}
Last(s) == s[Len(s)]

\* a str that is present and not empty
NonEmptyError(e) == e # None /\ e # ""

QueryStages == <<"get_schema", "get_rag_context", "generate_sql",
                 "execute_query", "explain_results">>

-----------------------------------------------------------------------------
(* C1 *)

\* C1: in the Query Pipeline and in the direct HTTP route, the execution
\* capability is invoked only with a statement that the generation-time check
\* (_is_query_safe) and then the execution-time check (is_safe_query) accepted:
\* every invocation follows a model call whose output generation accepted as
\* exactly that statement, and the statement passes both gates.
C1_ExecutionOnlyAfterBothGates ==
    \A i \in CallsOf("execute") :
        /\ GenerationVerdict[calls[i].arg]
        /\ ExecutionVerdict[calls[i].arg]
        /\ \E j \in GenerateCalls :
              j < i /\ GeneratedOf[calls[j].ret] = Ok(calls[i].arg)

\* a pipeline run in which the execution capability was invoked
C1_Witness == entry = "query" /\ CallsOf("execute") # {} /\ pc = "done"

-----------------------------------------------------------------------------
(* C2 *)

\* the model output of the spec's example: DROP TABLE users; SELECT 1
DropTableThenSelect ==
    <<"D","R","O","P"," ","T","A","B","L","E"," ","u","s","e","r","s",";"," ",
      "S","E","L","E","C","T"," ","1">>

\* C2: when the model returns DROP TABLE users; SELECT 1 (a text that does not
\* begin with SELECT but contains one later), the generation-time gate rejects
\* it: the execution capability is never invoked, and the run ends in
\* handle_error with success=false and a non-empty error.
C2_LeadingDropRejected ==
    (entry = "query" /\ ModelReturned(DropTableThenSelect)) =>
        /\ CallsOf("execute") = {}
        /\ pc # "execute_query"
        /\ pc = "done" =>
              /\ Last(visited) = "handle_error"
              /\ ~resp.success
              /\ NonEmptyError(resp.error)

-----------------------------------------------------------------------------
(* C3 *)

\* the model output with its code-fence markers removed and trimmed
FencesAndBlanksRemoved(t) == Strip(StripFences(t))

\* C3: apart from trimming and the removal of code-fence markers, the text
\* stored in generated_sql and the text handed to the execution capability are
\* exactly the text the model returned.
C3_NoRewriting ==
    /\ (entry = "query" /\ Has(st, "generated_sql")) =>
          \E j \in GenerateCalls :
              /\ calls[j].ret.ok
              /\ st.generated_sql = FencesAndBlanksRemoved(calls[j].ret.val)
    /\ \A i \in CallsOf("execute") :
          \E j \in GenerateCalls :
              /\ j < i
              /\ calls[j].ret.ok
              /\ calls[i].arg = FencesAndBlanksRemoved(calls[j].ret.val)

-----------------------------------------------------------------------------
(* C4 *)

RejectedForVerb(t) ==
    \/ ~StartsWith(Upper(Strip(t)), KwSelect)
    \/ \E n \in 1..5 : Search(dangerous_patterns[n], Upper(t))

-----------------------------------------------------------------------------
(* C5 *)

\* the keyword k1, then at least gap blanks and only blanks, then the keyword k2
KeywordThenKeyword(u, k1, k2, gap) ==
    \E i \in 1..Len(u) :
        /\ OccursAt(u, k1, i)
        /\ \E j \in (i + Len(k1) + gap)..Len(u) :
              /\ OccursAt(u, k2, j)
              /\ \A h \in (i + Len(k1))..(j - 1) : u[h] \in Whitespace

\* UPDATE, blanks, a target without blanks, blanks, SET
UpdateTargetSet(u) ==
    \E i \in 1..Len(u) :
        /\ OccursAt(u, <<"U","P","D","A","T","E">>, i)
        /\ \E j \in (i + 9)..Len(u) :
              /\ OccursAt(u, <<"S","E","T">>, j)
              /\ \E a \in (i + 7)..(j - 2), b \in (i + 7)..(j - 2) :
                    /\ a <= b
                    /\ \A h \in (i + 6)..(a - 1) : u[h] \in Whitespace
                    /\ \A h \in a..b : u[h] \notin Whitespace
                    /\ \A h \in (b + 1)..(j - 1) : u[h] \in Whitespace

\* a line comment that runs to the end of the text
TrailingLineComment(u) ==
    \E i \in 1..Len(u) :
        /\ OccursAt(u, <<"-","-">>, i)
        /\ \A h \in (i + 2)..(Len(u) - 1) : u[h] # "\n"

\* a block comment, opened and closed
BlockComment(u) ==
    \E i \in 1..Len(u) :
        /\ OccursAt(u, <<"/","*">>, i)
        /\ \E j \in (i + 2)..Len(u) : OccursAt(u, <<"*","/">>, j)

\* what the policy of the generation-time gate lets through
WithinPolicy(t) ==
    LET u == Upper(t) IN
    /\ StartsWith(u, KwSelect)
    /\ ~KeywordThenKeyword(u, <<"D","R","O","P">>, <<"T","A","B","L","E">>, 1)
    /\ ~KeywordThenKeyword(u, <<"D","E","L","E","T","E">>, <<"F","R","O","M">>, 1)
    /\ ~UpdateTargetSet(u)
    /\ ~KeywordThenKeyword(u, <<"I","N","S","E","R","T">>, <<"I","N","T","O">>, 1)
    /\ ~Contains(u, <<"T","R","U","N","C","A","T","E">>)
    /\ ~KeywordThenKeyword(u, <<"E","X","E","C">>, <<"(">>, 0)
    /\ ~KeywordThenKeyword(u, <<"E","X","E","C","U","T","E">>, <<"(">>, 0)
    /\ ~TrailingLineComment(u)
    /\ ~BlockComment(u)

\* C5: the generation-time validator answers a boolean, and answers true only
\* for a text that begins (in any case) with SELECT and holds none of DROP
\* TABLE, DELETE FROM, UPDATE <target> SET, INSERT INTO, TRUNCATE, EXEC(,
\* EXECUTE(, a trailing line comment, a block comment; so does every statement
\* generation accepts after stripping fences and trimming.
C5_SafeOnlyWithinPolicy ==
    (entry = "gate" /\ pc = "done") =>
        /\ resp.generation \in BOOLEAN
        /\ resp.generation => WithinPolicy(submitted)
        /\ resp.generated.ok => WithinPolicy(resp.generated.val)

\* a text of two fragments that the validator accepts
C5_Witness ==
    /\ entry = "gate" /\ pc = "done"
    /\ resp.generation
    /\ Len(submitted) > 8

-----------------------------------------------------------------------------
(* C6 *)

\* the retrieval capability was invoked and failed on every call
RetrievalDown ==
    /\ CallsOf("search") # {}
    /\ \A i \in CallsOf("search") : ~calls[i].ret.ok

\* the model returned a statement that generation accepts: it passes
\* _is_query_safe once cleaned, and holds no ERROR: sentinel
ModelReturnedSafeStatement ==
    \E i \in GenerateCalls :
        LET sql_query == GeneratedOf[calls[i].ret] IN
        sql_query.ok /\ ~Contains(Upper(sql_query.val), Sentinel)

\* C6: with a retrieval capability that fails on every call, get_rag_context
\* writes the empty context (no schema_info, no best_practices) and no error,
\* and a run whose model output is a safe statement goes from generate_sql to
\* execute_query, not to handle_error.
C6_RetrievalFailureDegrades ==
    (entry = "query" /\ RetrievalDown) =>
        /\ Has(st, "rag_context")
        /\ st.rag_context = [schema_info |-> <<>>, best_practices |-> <<>>,
                             full_schema |-> st.schema]
        /\ Len(visited) = 2 => ~Has(st, "error")
        /\ ModelReturnedSafeStatement =>
              /\ ~Has(st, "error") \/ "execute_query" \in Range(visited)
              /\ Len(visited) = 3 => pc = "execute_query"
              /\ Len(visited) > 3 => visited[4] = "execute_query"

\* retrieval failed on every call and the run is about to execute the statement
C6_Witness ==
    /\ entry = "query" /\ RetrievalDown /\ ModelReturnedSafeStatement
    /\ pc = "execute_query"
    /\ st.rag_context.schema_info = <<>>

-----------------------------------------------------------------------------
(* C7 *)

\* the model output of the spec's example: SELECT 1 LIMIT 1
SelectOneLimitOne ==
    <<"S","E","L","E","C","T"," ","1"," ","L","I","M","I","T"," ","1">>

\* the run of the spec's example: the schema fetch answered a schema without a
\* table about the question, the model returned SELECT 1 LIMIT 1, the
\* execution capability returned one row, and the caller asked for one row or
\* more (process_query asks for 50 by default)
ExampleRun ==
    /\ entry = "query"
    /\ submitted.max_results >= 1
    /\ \E i \in CallsOf("schema") : calls[i].ret = Ok(UsersSchema)
    /\ ModelReturned(SelectOneLimitOne)
    /\ \E i \in CallsOf("execute") : calls[i].ret = Ok(Rows(1))

-----------------------------------------------------------------------------
(* C8 *)

\* the schema capability failed in get_schema
SchemaFailed == \E i \in CallsOf("schema") : ~calls[i].ret.ok

\* C8: when the schema capability fails in get_schema the run ends at the
\* handle_error terminal with success=false, and the retrieval, model and
\* execution capabilities are never invoked.
C8_SchemaFailureEndsInHandleError ==
    (entry = "query" /\ SchemaFailed) =>
        /\ CallsOf("search") = {} /\ CallsOf("model") = {} /\ CallsOf("execute") = {}
        /\ "execute_query" \notin Range(visited)
        /\ "explain_results" \notin Range(visited)
        /\ IsFinal => Last(visited) = "handle_error" /\ ~st.success
        /\ pc = "done" => ~resp.success

\* the run of a failed schema fetch has returned
C8_Witness == entry = "query" /\ SchemaFailed /\ pc = "done"

-----------------------------------------------------------------------------
(* C9 *)

ErrorTerminals == {"handle_error", "upload_handle_error"}
SuccessStages == {"execute_query", "add_to_vector_store"}

\* C9: in the final state of a run of either pipeline success=true implies
\* that error is absent and success=false that error is a non-empty string;
\* success=true is written only by execute_query or add_to_vector_store, and is
\* never true in a run that passed through handle_error.
C9_SuccessAndErrorAgree ==
    IsPipeline =>
        /\ (IsFinal /\ st.success) => ~Has(st, "error")
        /\ (IsFinal /\ ~st.success) => Has(st, "error") /\ NonEmptyError(st.error)
        /\ st.success => Range(visited) \cap SuccessStages # {}
        /\ Range(visited) \cap ErrorTerminals # {} => ~st.success

\* a run that ends in failure although no stage recorded an error: every file
\* of the upload failed extraction
C9_Witness ==
    /\ entry = "upload" /\ pc = "done"
    /\ ~st.success
    /\ st.error = "Unknown error occurred"

-----------------------------------------------------------------------------
(* C10 *)

\* the positions of a pipeline run that has not returned: a stage of the graph
\* or its end marker, each with a step to take
PipelinePositions ==
    IF entry = "query"
    THEN Range(QueryStages) \cup {"handle_error", "END"}
    ELSE {"validate_files", "extract_text", "create_documents",
          "add_to_vector_store", "upload_handle_error", "END"}

\* C10: process_query and process_upload return a mapping whichever capability
\* fails at whichever stage: a run that has not returned stands at a stage of
\* its graph with a step to take, and the mapping returned carries a success
\* flag and, with success=false, a non-empty error string.
C10_CallerAlwaysGetsResult ==
    IsPipeline =>
        /\ pc # "done" => resp = NoResp /\ pc \in PipelinePositions
        /\ pc = "done" =>
              /\ Has(resp, "success") /\ resp.success \in BOOLEAN
              /\ ~resp.success => Has(resp, "error") /\ NonEmptyError(resp.error)

\* a query run that returned a failure although no stage recorded an error:
\* the statement held the ERROR: sentinel
C10_Witness ==
    /\ entry = "query" /\ pc = "done"
    /\ ~resp.success
    /\ resp.error = "Unknown error occurred"

-----------------------------------------------------------------------------
(* C11 *)

\* C11: a Query Pipeline run that ends with success=true exposes an
\* explanation in its result, the model's narration or the fallback sentence,
\* for any number of returned rows including zero.
C11_SuccessHasExplanation ==
    (entry = "query" /\ pc = "done" /\ resp.success) =>
        resp.explanation \in Narrations \cup {FallbackExplanation}

-----------------------------------------------------------------------------
(* C12 *)

\* the model failed while explain_results ran
ExplainFailed ==
    \E i \in CallsOf("model") : calls[i].arg = "explain" /\ ~calls[i].ret.ok

\* C12: when the model fails while explain_results runs the run does not
\* fail: the final state keeps success=true and the rows execute_query wrote,
\* has no error, and its explanation is the fallback sentence; the result
\* returned says the same.
C12_ExplainFailureDegrades ==
    (entry = "query" /\ ExplainFailed) =>
        /\ IsFinal /\ Last(visited) = "explain_results"
        /\ st.success /\ ~Has(st, "error")
        /\ Has(st, "explanation") /\ st.explanation = FallbackExplanation
        /\ \E j \in CallsOf("execute") :
              /\ calls[j].ret.ok
              /\ Has(st, "execution_result")
              /\ st.execution_result = Prefix(calls[j].ret.val, submitted.max_results)
        /\ pc = "done" =>
              /\ resp.success /\ resp.error = None
              /\ resp.explanation = FallbackExplanation
              /\ resp.execution_result = st.execution_result

\* a run has returned after the model failed to narrate its rows
C12_Witness ==
    /\ entry = "query" /\ ExplainFailed /\ pc = "done"
    /\ Len(resp.execution_result) >= 1

-----------------------------------------------------------------------------
(* C13 *)

\* C13: for every max_results >= 0 and every execution that returns n rows, a
\* successful Query Pipeline run returns exactly the first min(n, max_results)
\* rows in their original order, never more than max_results.
C13_RowsTruncated ==
    (entry = "query" /\ pc = "done" /\ resp.success) =>
        \E j \in CallsOf("execute") :
            /\ calls[j].ret.ok
            /\ LET rows == calls[j].ret.val
                   returned == resp.execution_result
                   k == IF Len(rows) <= submitted.max_results
                        THEN Len(rows) ELSE submitted.max_results
               IN  /\ resp.has_rows
                   /\ Len(returned) = k
                   /\ Len(returned) <= submitted.max_results
                   /\ \A i \in 1..k : returned[i] = rows[i]

\* a successful run whose execution returned more rows than were asked for
C13_Witness ==
    /\ entry = "query" /\ pc = "done" /\ resp.success
    /\ submitted.max_results >= 1
    /\ \E j \in CallsOf("execute") :
          calls[j].ret.ok /\ Len(calls[j].ret.val) > submitted.max_results
    /\ Len(resp.execution_result) = submitted.max_results

-----------------------------------------------------------------------------
(* C14 *)

\* the validated files by their position: extract_text calls the extraction
\* once per validated file, in order, before any other call of the run
CleanFiles == {i \in CallsOf("extract") : calls[i].ret.ok}
FailedFiles == {i \in CallsOf("extract") : ~calls[i].ret.ok}

\* the files the documents of the state were cut from
Origins(documents) == {documents[i].origin : i \in 1..Len(documents)}

\* the store insertion was invoked and returned
Inserted == \E i \in CallsOf("store") : calls[i].ret.ok

\* C14: in a run over N validated files of which M fail extraction, N-M > 0,
\* extract_text writes no run-level error, create_documents yields documents
\* for exactly the N-M files that extracted cleanly and for none of the failed
\* ones, and the run ends with success=true when the insertion succeeds.
C14_PartialFailureIsolated ==
    (entry = "upload" /\ CleanFiles # {}) =>
        /\ Has(st, "extracted_texts")
        /\ Len(visited) = 2 => ~Has(st, "error")
        /\ Len(visited) >= 3 =>
              /\ Has(st, "processed_documents")
              /\ Origins(st.processed_documents) = CleanFiles
        /\ (pc = "done" /\ Inserted) => resp.success

-----------------------------------------------------------------------------
(* C15 *)

\* C15: a run that reaches add_to_vector_store ends with success=true exactly
\* when the one store insertion returned (a store is there and add_documents
\* does not raise), whatever failed upstream; otherwise it goes on to
\* handle_error and ends with success=false.
C15_SuccessIffInsertion ==
    (entry = "upload" /\ "add_to_vector_store" \in Range(visited)) =>
        /\ Cardinality(CallsOf("store")) <= 1
        /\ st.success <=> Inserted
        /\ Inserted => IsFinal /\ Last(visited) = "add_to_vector_store"
        /\ ~Inserted =>
              /\ Len(visited) = 4 => pc = "upload_handle_error"
              /\ Len(visited) > 4 => visited[5] = "upload_handle_error"
        /\ pc = "done" => (resp.success <=> Inserted)

\* a run that succeeded although a file failed extraction upstream
C15_Witness ==
    /\ entry = "upload" /\ pc = "done"
    /\ FailedFiles # {} /\ Inserted /\ resp.success

-----------------------------------------------------------------------------
(* C16 *)

\* C16: a run that ends through handle_error returns exactly one failure
\* record for each file of the list submitted to process_upload, the files
\* validate_files dropped included.
C16_FailureRecordPerSubmittedFile ==
    (entry = "upload" /\ pc = "done" /\ "upload_handle_error" \in Range(visited)) =>
        /\ Len(resp.results) = Len(submitted)
        /\ \A i \in 1..Len(resp.results) :
              /\ resp.results[i].status = "error"
              /\ resp.results[i].filename = submitted[i].filename

-----------------------------------------------------------------------------
(* C17 *)

\* an entry with a filename and content that are not empty
Complete(file_info) ==
    file_info.filename # NoName /\ file_info.content.len > 0

\* C17: validate_files keeps exactly the submitted entries that have a
\* filename and content, in their order; when none remains (nothing was
\* submitted, or every entry lacks one of the two) validate_files itself
\* records an error and the run ends in handle_error with success=false
\* without a call of the extraction or of the store.
C17_ValidateFilesKeepsComplete ==
    (entry = "upload" /\ Len(visited) >= 1) =>
        LET complete == SelectSeq(submitted, Complete) IN
        /\ submitted # <<>> =>
              /\ Len(st.files) = Len(complete)
              /\ \A i \in 1..Len(complete) :
                    /\ st.files[i].filename = complete[i].filename
                    /\ st.files[i].content = complete[i].content
        /\ complete = <<>> =>
              /\ Len(visited) = 1 => Has(st, "error") /\ NonEmptyError(st.error)
              /\ CallsOf("extract") = {} /\ CallsOf("store") = {}
              /\ pc = "done" =>
                    /\ Last(visited) = "upload_handle_error"
                    /\ ~resp.success

-----------------------------------------------------------------------------
(* C18 *)

\* create_documents ran and produced no document
NoDocuments ==
    /\ Len(visited) >= 3
    /\ Has(st, "processed_documents") /\ st.processed_documents = <<>>

\* C18: when create_documents produces zero documents the run goes to
\* handle_error, ends with success=false and a non-empty error, and the store
\* insertion is never invoked.
C18_NoDocumentsEndsInError ==
    (entry = "upload" /\ NoDocuments) =>
        /\ Len(visited) = 3 => pc = "upload_handle_error"
        /\ Len(visited) > 3 => visited[4] = "upload_handle_error"
        /\ "add_to_vector_store" \notin Range(visited)
        /\ CallsOf("store") = {} /\ CallsOf("vector_store") = {}
        /\ pc = "done" => ~resp.success /\ NonEmptyError(resp.error)

\* a run that returned after its only clean text yielded no chunk
C18_Witness ==
    /\ entry = "upload" /\ pc = "done" /\ NoDocuments
    /\ CleanFiles # {}

-----------------------------------------------------------------------------
(* C19 *)

\* what the capabilities answered over a stretch of calls, in order
Answers(s) == [i \in 1..Len(s) |-> <<s[i].cap, s[i].ret>>]

\* the second run of the same file list has returned, and met capabilities
\* that behaved as in the first run
RerunReturned ==
    /\ entry = "upload" /\ pc = "done"
    /\ CallsOf("process_upload") # {}
    /\ LET k == CHOOSE k \in CallsOf("process_upload") : TRUE IN
       Answers(SubSeq(calls, 1, k - 1)) = Answers(SubSeq(calls, k + 1, Len(calls)))

-----------------------------------------------------------------------------
(* C20 *)

\* no stage ran twice, every stage that ran and the position of the run are
\* declared, and no more than 6 (query) or 5 (ingestion) stages ran
StagesOnce ==
    IsPipeline =>
    /\ \A i, j \in 1..Len(visited) : i # j => visited[i] # visited[j]
    /\ Range(visited) \subseteq PipelinePositions \ {"END"}
    /\ pc \in PipelinePositions \cup {"done"}
    /\ Len(visited) <= IF entry = "query" THEN 6 ELSE 5

\* C20: every run of the two pipelines terminates when each capability call
\* returns or raises: no stage is executed more than once, every transition
\* leads to a declared stage or to the end marker, and the end marker is
\* reached after at most 6 stage executions (query) or 5 (ingestion).
C20_RunsTerminate == []StagesOnce /\ <>(pc = "END")

\* an ingestion run that returned after its longest path, five stages
C20_Witness ==
    /\ entry = "upload" /\ pc = "done"
    /\ Len(visited) = 5

-----------------------------------------------------------------------------
(* C21 *)

\* what the store answered in a run, read from the calls of that run
FoundOf(log) ==
    LET lookups == {i \in 1..Len(log) : log[i].cap = "vector_store"}
        adds == {i \in 1..Len(log) : log[i].cap = "store"}
    IN  [store |-> \E i \in lookups : log[i].ret.val,
         add |-> IF adds = {} THEN Ok(<<>>) ELSE log[CHOOSE i \in adds : TRUE].ret]

\* a run that reached the end went through the stages, and holds the state and
\* the result, of the same call run alone with the same capability answers
AsAlone(run) ==
    run.pc \in {"END", "done"} =>
        LET alone == UploadAlone(run.submitted, FoundOf(run.calls)) IN
        /\ run.visited = alone.visited
        /\ run.st = alone.st
        /\ run.pc = "done" => run.resp = UploadResult(run.submitted, alone.st)

-----------------------------------------------------------------------------
(* C22 *)

\* every occurrence of stage in seq comes directly after an occurrence of before
Follows(seq, before, stage) ==
    \A i \in 1..Len(seq) : seq[i] = stage => i > 1 /\ seq[i - 1] = before

\* stage, when it occurs in seq, is its last element
OnlyLast(seq, stage) ==
    \A i \in 1..Len(seq) : seq[i] = stage => i = Len(seq)

\* C22: within one run stages execute one at a time in graph order: in the
\* Query Pipeline get_rag_context comes after get_schema, generate_sql after
\* get_rag_context, execute_query after generate_sql and explain_results after
\* execute_query; in the Ingestion Pipeline extract_text follows
\* validate_files, create_documents follows extract_text and
\* add_to_vector_store follows create_documents; handle_error, when visited,
\* is the last stage of the run.
C22_StagesInGraphOrder ==
    /\ entry = "query" =>
          /\ visited # <<>> => visited[1] = "get_schema"
          /\ Follows(visited, "get_schema", "get_rag_context")
          /\ Follows(visited, "get_rag_context", "generate_sql")
          /\ Follows(visited, "generate_sql", "execute_query")
          /\ Follows(visited, "execute_query", "explain_results")
          /\ OnlyLast(visited, "handle_error")
          /\ "handle_error" \in Range(visited) => pc \in {"END", "done"}
    /\ entry = "upload" =>
          /\ visited # <<>> => visited[1] = "validate_files"
          /\ Follows(visited, "validate_files", "extract_text")
          /\ Follows(visited, "extract_text", "create_documents")
          /\ Follows(visited, "create_documents", "add_to_vector_store")
          /\ OnlyLast(visited, "upload_handle_error")
          /\ "upload_handle_error" \in Range(visited) => pc \in {"END", "done"}

\* an ingestion run that went through every stage and ended in handle_error
C22_Witness ==
    /\ entry = "upload" /\ pc = "done"
    /\ visited = <<"validate_files", "extract_text", "create_documents",
                   "add_to_vector_store", "upload_handle_error">>

-----------------------------------------------------------------------------
(* C23 *)

\* the statement in the state is non-empty and starts, in any letter case,
\* with SELECT
SelectStatement(state) ==
    /\ Has(state, "generated_sql")
    /\ state.generated_sql # <<>>
    /\ StartsWith(Upper(state.generated_sql), KwSelect)

\* the state generate_sql has just left
AfterGenerateSql ==
    entry = "query" /\ visited # <<>> /\ Last(visited) = "generate_sql"

\* C23 as stated: after generate_sql the next stage is execute_query if and
\* only if no error is recorded, generated_sql is non-empty, starts
\* case-insensitively with SELECT and does not contain the text ERROR: as
\* written, in capitals; otherwise the next stage is handle_error.
C23_ExecuteIffValid ==
    AfterGenerateSql =>
        LET valid == /\ ~Has(st, "error")
                     /\ SelectStatement(st)
                     /\ ~Contains(st.generated_sql, Sentinel)
        IN  /\ pc = "execute_query" <=> valid
            /\ ~valid => pc = "handle_error"

\* C23 amended: after generate_sql the next stage is execute_query if and only
\* if no error is recorded, generated_sql is non-empty, starts
\* case-insensitively with SELECT and does not contain ERROR: in any letter
\* case; in every other case the next stage is handle_error, and a run that
\* went from generate_sql to handle_error did not run execute_query.
C23_ExecuteIffValidAnyCase ==
    /\ AfterGenerateSql =>
          LET valid == /\ ~Has(st, "error")
                       /\ SelectStatement(st)
                       /\ ~Contains(Upper(st.generated_sql), Sentinel)
          IN  /\ pc = "execute_query" <=> valid
              /\ ~valid => pc = "handle_error"
    /\ (entry = "query" /\ "execute_query" \in Range(visited)) =>
          /\ SelectStatement(st)
          /\ ~Contains(Upper(st.generated_sql), Sentinel)
          /\ GenerateCalls # {}

\* generate_sql left a SELECT statement that contains the sentinel, and the
\* run went to handle_error
C23_Witness ==
    /\ AfterGenerateSql
    /\ ~Has(st, "error")
    /\ SelectStatement(st)
    /\ Contains(st.generated_sql, Sentinel)
    /\ pc = "handle_error"

-----------------------------------------------------------------------------
(* C24 *)

\* the text holds insert, update, delete, drop, truncate, alter or create
\* somewhere, in any letter case, as a word or inside one
HoldsKeyword(text) ==
    \E kw \in {<<"i","n","s","e","r","t">>, <<"u","p","d","a","t","e">>,
                <<"d","e","l","e","t","e">>, <<"d","r","o","p">>,
                <<"t","r","u","n","c","a","t","e">>, <<"a","l","t","e","r">>,
                <<"c","r","e","a","t","e">>} :
        Contains(Lower(text), kw)

\* C24: a generated statement that passed the generation-time gate but holds
\* one of the keywords insert, update, delete, drop, truncate, alter, create
\* anywhere as a substring (a column named updated_at) is rejected at
\* execute_query: the execution capability is not invoked, the run goes to
\* handle_error and ends with success=false and the error
\* 'Generated query is not safe'.
C24_KeywordSubstringRejected ==
    (entry = "query" /\ HasSql(st) /\ HoldsKeyword(st.generated_sql)) =>
        /\ CallsOf("execute") = {}
        /\ "explain_results" \notin Range(visited)
        /\ "execute_query" \in Range(visited) =>
              /\ pc \in {"handle_error", "END", "done"}
              /\ Has(st, "error") /\ st.error = "Generated query is not safe"
              /\ ~st.success
              /\ pc = "done" =>
                    /\ Last(visited) = "handle_error"
                    /\ ~resp.success
                    /\ resp.error = "Generated query is not safe"

\* a run that returned after execute_query met a statement with updated_at in
\* it, which the generation-time gate had accepted
C24_Witness ==
    /\ entry = "query" /\ pc = "done"
    /\ "execute_query" \in Range(visited)
    /\ HasSql(st) /\ HoldsKeyword(st.generated_sql)
    /\ GenerationVerdict[st.generated_sql]

-----------------------------------------------------------------------------
(* C25 *)

\* the fields of the running state that hold a value, error and success aside
WrittenFields(state) == DOMAIN state \ {"error", "success"}

\* C25: in every run of either pipeline, a state field other than error and
\* success that already holds a value (from the initial state or an earlier
\* stage) is never changed or retracted by a later stage: files,
\* extracted_texts, processed_documents and results, and schema, rag_context,
\* generated_sql and execution_result, keep their first written value until
\* the run ends.
C25_WrittenFieldsKept ==
    [][(entry \in {"query", "upload"}) =>
         \A field \in WrittenFields(st) :
             field \in DOMAIN st' /\ st[field] = st'[field]]_vars

-----------------------------------------------------------------------------
(* C26 *)

\* the keys of the patches a stage returns, over all of its return statements
PatchFields(stage) ==
    CASE stage = "get_schema"          -> {"schema", "error", "success"}
      [] stage = "get_rag_context"     -> {"rag_context", "error", "success"}
      [] stage = "generate_sql"        -> {"generated_sql", "error", "success"}
      [] stage = "execute_query"       -> {"execution_result", "error", "success"}
      [] stage = "explain_results"     -> {"explanation"}
      [] stage = "handle_error"        -> {"error", "success"}
      [] stage = "validate_files"      -> {"files", "error", "success"}
      [] stage = "extract_text"        -> {"extracted_texts", "error", "success"}
      [] stage = "create_documents"    -> {"processed_documents", "error", "success"}
      [] stage = "add_to_vector_store" -> {"results", "error", "success"}
      [] stage = "upload_handle_error" -> {"results", "error", "success"}

\* a step in which a stage ran touches no field outside the stage's patches
FrameStep ==
    (entry \in {"query", "upload"} /\ visited' # visited) =>
        LET stage == Last(visited') IN
        /\ DOMAIN st \subseteq DOMAIN st'
        /\ (DOMAIN st' \ DOMAIN st) \subseteq PatchFields(stage)
        /\ \A field \in DOMAIN st \ PatchFields(stage) : st[field] = st'[field]

\* the run asked the execution capability and it failed
ExecutionFailed ==
    entry = "query" /\ \E i \in CallsOf("execute") : ~calls[i].ret.ok

\* a run whose execution capability failed still holds, and returns, the
\* statement generate_sql wrote: the one the capability was called with
KeepsGeneratedSql ==
    ExecutionFailed =>
        \A i \in CallsOf("execute") :
            /\ Has(st, "generated_sql") /\ st.generated_sql = calls[i].arg
            /\ pc = "done" =>
                  /\ resp.has_sql /\ resp.generated_sql = calls[i].arg
                  /\ ~resp.success

\* C26: each stage changes only the fields present in the patch it returns and
\* leaves every other field of the running state unchanged: a run whose
\* execution capability fails still returns the generated_sql written by
\* generate_sql, and handle_error in the Query Pipeline changes nothing but
\* error and success.
C26_StagesChangeOnlyPatchFields == [][FrameStep]_vars /\ []KeepsGeneratedSql

\* a run returned after the execution capability failed and handle_error ran
C26_Witness ==
    /\ ExecutionFailed /\ pc = "done"
    /\ Last(visited) = "handle_error"
    /\ resp.has_sql /\ resp.generated_sql # <<>>

-----------------------------------------------------------------------------
(* C27 *)

\* C27: in a Query Pipeline run, once a stage has recorded an error no later
\* stage replaces it with a different message: the error text in the final
\* result is the one written by the first stage that failed (a schema-fetch
\* failure is reported as 'Schema extraction failed: ...', not as
\* 'No schema available' or 'No context available for SQL generation').
C27_FirstErrorKept ==
    [][(entry = "query" /\ Has(st, "error")) =>
         /\ Has(st', "error") /\ st.error = st'.error
         /\ pc' = "done" => resp'.error = st.error]_vars

-----------------------------------------------------------------------------
(* C28 *)

\* db_service.get_schema returned a mapping without raising
SchemaFetched ==
    entry = "query" /\ \E i \in CallsOf("schema") : calls[i].ret.ok

\* C28: a schema fetch that succeeds never by itself fails the run: when
\* get_schema returns a schema mapping without raising, even an empty one (a
\* database with no tables), the run proceeds to the retrieval and model
\* capabilities, and with a safe generated statement and a successful
\* execution it ends with success=true.
C28_FetchedSchemaNeverFailsRun ==
    SchemaFetched =>
        /\ "get_rag_context" \in Range(visited) =>
              CallsOf("search") # {} /\ Has(st, "rag_context")
        /\ "generate_sql" \in Range(visited) => GenerateCalls # {}
        /\ pc = "get_rag_context" => ~Has(st, "error")
        /\ (pc = "done" /\ \E i \in CallsOf("execute") : calls[i].ret.ok) =>
              resp.success

-----------------------------------------------------------------------------
(* C29 *)

\* C29: in every result of process_upload the counts account for each
\* submitted file exactly once: successful + failed = processed_files, every
\* submitted file has a result record, and a file that failed extraction is
\* counted as failed even when the run as a whole succeeds (a file split into
\* several chunks is counted once, not once per chunk).
C29_CountsAccountForEachFile ==
    (entry = "upload" /\ pc = "done") =>
        /\ resp.successful + resp.failed = resp.processed_files
        /\ Len(resp.results) = Len(submitted)
        /\ \A i \in 1..Len(submitted) :
              \E n \in 1..Len(resp.results) :
                  resp.results[n].filename = submitted[i].filename
        /\ resp.success => resp.failed = Cardinality(FailedFiles)

-----------------------------------------------------------------------------
(* C30 *)

\* the request holds no file with a supported extension
NoSupportedFile ==
    \A i \in 1..Len(submitted) : submitted[i].filename.ext \notin SUPPORTED_EXTENSIONS

\* the workflow was invoked and its run did not succeed
ProcessingFailed ==
    \E i \in CallsOf("process_upload") : ~calls[i].ret.val.success

\* C30: the upload endpoints answer a client input error with status 400 and a
\* processing failure with status 500: upload_knowledge_file given a file
\* whose extension is not in SUPPORTED_EXTENSIONS, and upload_knowledge_batch
\* given no file with a supported extension, each end with a 400 response, and
\* the workflow is not invoked in either case.
C30_ClientErrorIs400 ==
    (entry \in {"upload_file", "upload_batch"} /\ pc = "done") =>
        /\ NoSupportedFile =>
              /\ resp.raised /\ resp.status = 400
              /\ CallsOf("process_upload") = {}
        /\ ProcessingFailed => resp.raised /\ resp.status = 500

====
